---- MODULE Spec2Model ----
(***************************************************************************)
(* Model of the extension project validators of connect-eaas-core          *)
(* (connect/eaas/core/validations.py) and of the capability decorators     *)
(* exercised by tests/connect/eaas/core/test_extension.py.                 *)
(*                                                                         *)
(* Python values are modelled as follows.                                  *)
(*   - a dict is a function whose DOMAIN is its key set;                   *)
(*   - a list is a sequence;                                               *)
(*   - a str that the code inspects character by character (a variable     *)
(*     name) is a sequence of one-character strings; other strs are atoms; *)
(*   - a value whose Python type the code tests with isinstance is a       *)
(*     record [type, value];                                               *)
(*   - a validator call yields a record [exc, messages, must_halt,         *)
(*     context]: exc = "" for a returned ValidationResult, otherwise the   *)
(*     name of the exception that escapes the call.                        *)
(***************************************************************************)
EXTENDS Integers, Sequences, FiniteSets, TLC

VARIABLES
    call,           \* a validator called on its own: the call made
    ret,            \* a validator called on its own: what it produced
    project_dir,    \* a run of the chain: what project_dir holds
    shared_context, \* a run of the chain: the shared context
    all_messages,   \* a run of the chain: the messages accumulated so far
    step,           \* a run of the chain: index of the next validator
    status,         \* "idle", "running", "halted", "completed", "raised",
                    \* "returned"
    success,        \* a run of the chain: the overall verdict
    invoked,        \* a run of the chain: the validators invoked, with the
                    \* messages and must_halt of each result
    sys_path,       \* sys.path, as far as the validators extend it
    decorated,      \* a class definition: the attributes the capability
                    \* annotations have set on the class so far
    annotations     \* a class definition: the annotations applied so far,
                    \* innermost (applied first) first

unit_vars == <<call, ret>>

chain_vars ==
    <<project_dir, shared_context, all_messages, step, status, success,
      invoked, sys_path>>

class_vars == <<decorated, annotations>>

vars == <<call, ret, project_dir, shared_context, all_messages, step, status,
          success, invoked, sys_path, decorated, annotations>>

----------------------------------------------------------------------------
(* Python values                                                           *)

EmptyDict == [k \in {} |-> k]

PyStr(chars) == [type |-> "str", value |-> chars]

PyInt(chars) == [type |-> "int", value |-> chars]

PyBool(chars) == [type |-> "bool", value |-> chars]

isinstance(v, t) == v.type = t

\* dict.update(patch)
Update(d, patch) ==
    [k \in (DOMAIN d) \cup (DOMAIN patch) |->
        IF k \in DOMAIN patch THEN patch[k] ELSE d[k]]

----------------------------------------------------------------------------
(* proto.ValidationItem / proto.ValidationResult                           *)

\* ValidationItem(level, message, ...): the message text is the template
\* `text` with the values of `args` embedded; file and line are left out.
ValidationItem(level, text, args) ==
    [level |-> level, text |-> text, args |-> args]

\* a result that never halts
ValidationResultWithoutHalt(messages, must_halt, context) ==
    [exc |-> "", messages |-> messages, must_halt |-> FALSE,
     context |-> context]

\* ValidationResult(messages, must_halt, context=None): None is EmptyDict.
ValidationResult(messages, must_halt, context) ==
    [exc |-> "", messages |-> messages, must_halt |-> must_halt,
     context |-> context]

\* An exception leaving the validator: no ValidationResult exists.
Raise(exc) ==
    [exc |-> exc, messages |-> <<>>, must_halt |-> FALSE,
     context |-> EmptyDict]

----------------------------------------------------------------------------
(* The variable name pattern  ^[A-Za-z](?:[A-Za-z0-9_\-.]+)*$              *)

Letters == {"A", "B", "a", "b"}

Digits == {"0", "1"}

\* the characters of the class [A-Za-z0-9_\-.]
NameChars == Letters \cup Digits \cup {"_", "-", "."}

\* ^[A-Za-z](?:[A-Za-z0-9_\-.]+)* consumed exactly the first n characters
PatternConsumes(s, n) ==
    /\ n >= 1
    /\ n <= Len(s)
    /\ s[1] \in Letters
    /\ \A i \in 2..n : s[i] \in NameChars

\* $ (no re.MULTILINE): the end of the string, or just before a newline
\* that is the last character of the string
DollarAt(s, n) ==
    \/ n = Len(s)
    \/ n = Len(s) - 1 /\ s[Len(s)] = "\n"

\* variable_name_regex.match(name) is not None
variable_name_regex_match(s) ==
    \E n \in 0..Len(s) : PatternConsumes(s, n) /\ DollarAt(s, n)

----------------------------------------------------------------------------
(* validate_variables                                                      *)

\* the order in which validate_pyproject_toml inserts the declared types
\* into extension_classes, hence the order of .items()
possible_extensions == <<"extension", "webapp", "anvil">>

\* context['extension_classes'].items(), as the sequence of its keys
RECURSIVE ClassItems(_, _)
ClassItems(extension_classes, types) ==
    IF types = <<>> THEN <<>>
    ELSE (IF Head(types) \in DOMAIN extension_classes
          THEN <<Head(types)>> ELSE <<>>)
         \o ClassItems(extension_classes, Tail(types))

\* lines 323-350: the checks of one named variable, after the duplicate
\* check; TypeError when the name is no str (re.match on a non-string)
VariableChecks(variable) ==
    (IF ~variable_name_regex_match(variable["name"].value)
     THEN <<ValidationItem("ERROR", "Invalid variable name",
                           [name |-> variable["name"].value])>>
     ELSE <<>>)
    \o (IF "initial_value" \in DOMAIN variable
           /\ ~isinstance(variable["initial_value"], "str")
        THEN <<ValidationItem("ERROR", "Invalid initial_value attribute",
                              [name |-> variable["name"].value,
                               actual |-> variable["initial_value"].type])>>
        ELSE <<>>)
    \o (IF "secure" \in DOMAIN variable
           /\ ~isinstance(variable["secure"], "bool")
        THEN <<ValidationItem("ERROR", "Invalid secure attribute",
                              [name |-> variable["name"].value,
                               actual |-> variable["secure"].type])>>
        ELSE <<>>)

\* line 311: variable["name"] in names
DuplicateName(variable, names) ==
    \E i \in 1..Len(names) : names[i] = variable["name"]

\* lines 300-350: the loop over one class's variables; acc is
\* [names, messages, exc]
RECURSIVE VariablesLoop(_, _)
VariablesLoop(variables, acc) ==
    IF variables = <<>> \/ acc.exc # "" THEN acc
    ELSE LET variable == Head(variables) IN
         IF "name" \notin DOMAIN variable
         THEN VariablesLoop(Tail(variables),
                [acc EXCEPT !.messages = @ \o
                    <<ValidationItem("ERROR", "Invalid variable declaration",
                                     EmptyDict)>>])
         ELSE LET dup == IF DuplicateName(variable, acc.names)
                         THEN <<ValidationItem("ERROR",
                                    "Duplicate variable name",
                                    [name |-> variable["name"].value])>>
                         ELSE <<>>
              IN IF ~isinstance(variable["name"], "str")
                 THEN [acc EXCEPT !.exc = "TypeError"]
                 ELSE VariablesLoop(Tail(variables),
                        [names |-> Append(acc.names, variable["name"]),
                         messages |-> acc.messages \o dup
                                      \o VariableChecks(variable),
                         exc |-> ""])

\* the loop of lines 292-298 with names = [] hoisted out of it
RECURSIVE ClassesLoopSharedNames(_, _, _)
ClassesLoopSharedNames(extension_classes, types, acc) ==
    IF types = <<>> \/ acc.exc # "" THEN acc
    ELSE ClassesLoopSharedNames(extension_classes, Tail(types),
            VariablesLoop(extension_classes[Head(types)].variables, acc))

\* lines 292-298: the loop over the loaded classes; names = [] per class
RECURSIVE ClassesLoop(_, _, _)
ClassesLoop(extension_classes, types, acc) ==
    IF types = <<>> \/ acc.exc # "" THEN acc
    ELSE ClassesLoop(extension_classes, Tail(types),
            VariablesLoop(extension_classes[Head(types)].variables,
                          [acc EXCEPT !.names = <<>>]))

validate_variables(context) ==
    LET acc == ClassesLoop(context["extension_classes"],
                   ClassItems(context["extension_classes"],
                              possible_extensions),
                   [names |-> <<>>, messages |-> <<>>, exc |-> ""])
    IN IF acc.exc # "" THEN Raise(acc.exc)
       ELSE ValidationResult(acc.messages, FALSE, context)

----------------------------------------------------------------------------
(* validate_events / validate_schedulables                                 *)

PyNone == [type |-> "NoneType", value |-> <<>>]

PyList(items) == [type |-> "list", value |-> items]

\* the elements of a list, as a set
Range(seq) == {seq[i] : i \in 1..Len(seq)}

\* line 214: {definition['type']: definition for definition in ...}; a later
\* definition of a type replaces an earlier one
definitions(config) ==
    [t \in {config[i].type : i \in 1..Len(config)} |->
        LET last == CHOOSE i \in 1..Len(config) :
                        /\ config[i].type = t
                        /\ \A j \in (i + 1)..Len(config) : config[j].type # t
        IN config[last]]

\* lines 228-232: the statuses of the event that the type does not allow;
\* set(None) raises TypeError
InvalidStatuses(event, statuses) ==
    IF statuses # <<>>
    THEN IF event.statuses.type = "NoneType"
         THEN [exc |-> "TypeError", invalid |-> {}]
         ELSE [exc |-> "",
               invalid |-> Range(event.statuses.value) \ Range(statuses)]
    ELSE [exc |-> "",
          invalid |-> IF event.statuses.type = "NoneType"
                         \/ event.statuses.value = <<>>
                      THEN {} ELSE Range(event.statuses.value)]

\* lines 243-256 and 271-284: len(signature.parameters) != 2; sig_str is
\* method(param, param, ...), kept as the method name and the parameter list
SignatureCheck(extension_class, entry, text, args) ==
    LET parameters == extension_class.methods[entry.method] IN
    IF Len(parameters) # 2
    THEN <<ValidationItem("ERROR", text,
              args @@ [sig_str |-> <<entry.method, parameters>>])>>
    ELSE <<>>

\* lines 216-256: the loop over the declared events; acc is [messages, exc]
RECURSIVE EventsLoop(_, _, _, _)
EventsLoop(extension_class, defs, events, acc) ==
    IF events = <<>> \/ acc.exc # "" THEN acc
    ELSE LET event == Head(events) IN
         IF event.event_type \notin DOMAIN defs
         THEN \* lines 218-226: continue, the signature is not inspected
              EventsLoop(extension_class, defs, Tail(events),
                [acc EXCEPT !.messages = @ \o
                    <<ValidationItem("ERROR", "The event type is not valid",
                          [event_type |-> event.event_type])>>])
         ELSE LET inv == InvalidStatuses(event,
                             defs[event.event_type].object_statuses)
              IN IF inv.exc # "" THEN [acc EXCEPT !.exc = inv.exc]
                 ELSE EventsLoop(extension_class, defs, Tail(events),
                        [acc EXCEPT !.messages = @
                            \o (IF inv.invalid # {}
                                THEN <<ValidationItem("ERROR",
                                          "The status/es are invalid",
                                          [statuses |-> inv.invalid,
                                           event_type |-> event.event_type])>>
                                ELSE <<>>)
                            \o SignatureCheck(extension_class, event,
                                   "The handler has an invalid signature",
                                   [event_type |-> event.event_type])])

validate_events(config, context) ==
    IF "extension" \notin DOMAIN context["extension_classes"]
    THEN ValidationResult(<<>>, FALSE, context)
    ELSE LET extension_class == context["extension_classes"]["extension"]
             acc == EventsLoop(extension_class, definitions(config),
                               extension_class.events,
                               [messages |-> <<>>, exc |-> ""])
         IN IF acc.exc # "" THEN Raise(acc.exc)
            ELSE ValidationResult(acc.messages, FALSE, context)

\* lines 269-284
RECURSIVE SchedulablesLoop(_, _)
SchedulablesLoop(extension_class, schedulables) ==
    IF schedulables = <<>> THEN <<>>
    ELSE SignatureCheck(extension_class, Head(schedulables),
             "The schedulable method has an invalid signature",
             [method |-> Head(schedulables).method])
         \o SchedulablesLoop(extension_class, Tail(schedulables))

validate_schedulables(context) ==
    IF "extension" \notin DOMAIN context["extension_classes"]
    THEN ValidationResult(<<>>, FALSE, context)
    ELSE LET extension_class == context["extension_classes"]["extension"]
         IN ValidationResult(
                SchedulablesLoop(extension_class,
                                 extension_class.schedulables),
                FALSE, context)

----------------------------------------------------------------------------
(* validate_docker_compose_yml                                             *)

PyDict(d) == [type |-> "dict", value |-> d]

\* line 497: f'cloudblueconnect/connect-extension-runner:{runner_version}';
\* a str built by concatenation is the sequence of its parts
runner_image(context) ==
    PyStr(<<"cloudblueconnect/connect-extension-runner:">>
          \o <<context["runner_version"]>>)

\* line 500: data['services'][service].get('image')
ServiceImage(body) ==
    IF "image" \in DOMAIN body.value THEN body.value["image"] ELSE PyNone

\* lines 499-511: the loop over the services; a mapping of services is the
\* sequence of its [name, body] items in file order; acc is [messages, exc]
RECURSIVE ServicesLoop(_, _, _)
ServicesLoop(services, expected, acc) ==
    IF services = <<>> \/ acc.exc # "" THEN acc
    ELSE LET service == Head(services) IN
         IF service.body.type # "dict"
         THEN [acc EXCEPT !.exc = "AttributeError"]
         ELSE LET image == ServiceImage(service.body) IN
              ServicesLoop(Tail(services), expected,
                [acc EXCEPT !.messages = @ \o
                    (IF image # expected
                     THEN <<ValidationItem("ERROR", "Invalid image for service",
                               [service |-> service.name,
                                expected |-> expected,
                                got |-> image])>>
                     ELSE <<>>)])

MissingComposeFileAsError ==
    ValidationResult(
        <<ValidationItem("ERROR",
              "the file docker-compose.yml is not present", EmptyDict)>>,
        FALSE, EmptyDict)

\* lines 473-484: docker-compose.yml is not a file of project_dir
MissingComposeFile ==
    ValidationResult(
        <<ValidationItem("WARNING",
              "the file docker-compose.yml is not present", EmptyDict)>>,
        FALSE, EmptyDict)

\* compose_file is what project_dir holds as docker-compose.yml:
\* [state |-> "absent"], [state |-> "invalid"] (yaml.YAMLError) or
\* [state |-> "parsed", data |-> the value yaml.safe_load returns]
validate_docker_compose_yml(compose_file, context) ==
    IF compose_file.state = "absent" THEN MissingComposeFile
    ELSE IF compose_file.state = "invalid"
    THEN ValidationResult(
             <<ValidationItem("ERROR",
                   "The file docker-compose.yml is not valid", EmptyDict)>>,
             FALSE, EmptyDict)
    ELSE LET data == compose_file.data IN
         IF data.type # "dict" THEN Raise("TypeError")
         ELSE IF "services" \notin DOMAIN data.value THEN Raise("KeyError")
         ELSE IF data.value["services"].type = "NoneType"
         THEN Raise("TypeError")      \* for service in None
         ELSE IF data.value["services"].type = "list"
         THEN \* a list of services: no iteration when it is empty, else
              \* data['services'][service] indexes a list by a non-integer
              IF data.value["services"].value = <<>>
              THEN ValidationResult(<<>>, FALSE, EmptyDict)
              ELSE Raise("TypeError")
         ELSE LET acc == ServicesLoop(data.value["services"].value,
                                      runner_image(context),
                                      [messages |-> <<>>, exc |-> ""])
              IN IF acc.exc # "" THEN Raise(acc.exc)
                 ELSE ValidationResult(acc.messages, FALSE, EmptyDict)

----------------------------------------------------------------------------
(* validate_pyproject_toml                                                 *)

\* An entry-point reference 'package:ClassName' is the sequence of the
\* pieces that its ':' characters separate.
\* ref.rsplit(':', 1): [package, class_name], or one piece when ref has no ':'
rsplit(ref) ==
    IF Len(ref) = 1 THEN <<ref>>
    ELSE <<SubSeq(ref, 1, Len(ref) - 1), <<ref[Len(ref)]>> >>

\* lines 102-116: one WARNING per deprecated response class defined in or
\* imported into the module
deprecated_classes ==
    << <<"CustomEventResponse", "InteractiveResponse">>,
       <<"ProcessingResponse", "BackgroundResponse">>,
       <<"ProductActionResponse", "InteractiveResponse">>,
       <<"ValidationResponse", "InteractiveResponse">> >>

RECURSIVE DeprecatedLoop(_, _)
DeprecatedLoop(extension_module, pairs) ==
    IF pairs = <<>> THEN <<>>
    ELSE (IF Head(pairs)[1] \in extension_module.deprecated
          THEN <<ValidationItem("WARNING",
                     "The response class has been deprecated",
                     [deprecated_cls |-> Head(pairs)[1],
                      cls_name |-> Head(pairs)[2]])>>
          ELSE <<>>)
         \o DeprecatedLoop(extension_module, Tail(pairs))

\* lines 81-118: the loop over possible_extensions; modules is what
\* importlib finds under project_dir: package -> [import, deprecated,
\* classes]; acc is [messages, extensions, exc, must_halt]
RECURSIVE ExtensionsLoop(_, _, _, _)
ExtensionsLoop(extension_dict, modules, types, acc) ==
    IF types = <<>> \/ acc.exc # "" \/ acc.must_halt THEN acc
    ELSE LET extension_type == Head(types) IN
         IF extension_type \notin DOMAIN extension_dict
         THEN ExtensionsLoop(extension_dict, modules, Tail(types), acc)
         ELSE LET ref == extension_dict[extension_type]
                  pieces == rsplit(ref)
              IN IF Len(pieces) # 2
                 THEN [acc EXCEPT !.exc = "ValueError"]
                 ELSE LET package == pieces[1]
                          class_name == pieces[2][1]
                      IN IF package \notin DOMAIN modules
                            \/ modules[package].import = "ImportError"
                         THEN [acc EXCEPT
                                 !.messages = @ \o
                                    <<ValidationItem("ERROR",
                                        "The extension class cannot be loaded",
                                        [reference |-> ref])>>,
                                 !.must_halt = TRUE]
                         ELSE IF modules[package].import # "ok"
                         THEN \* the module raises something else on import
                              [acc EXCEPT !.exc = modules[package].import]
                         ELSE IF class_name \notin
                                    DOMAIN modules[package].classes
                         THEN [acc EXCEPT !.exc = "AttributeError"]
                         ELSE ExtensionsLoop(extension_dict, modules,
                                Tail(types),
                                [acc EXCEPT
                                   !.messages = @ \o
                                      DeprecatedLoop(modules[package],
                                                     deprecated_classes),
                                   !.extensions = @ @@
                                      (extension_type :>
                                        modules[package].classes[class_name])])

\* lines 41-61
DependencyCheck(dependencies) ==
    IF "connect-extension-runner" \in dependencies
    THEN <<ValidationItem("WARNING",
               "Extensions must depend on connect-eaas-core", EmptyDict)>>
    ELSE IF "connect-eaas-core" \notin dependencies
    THEN <<ValidationItem("ERROR",
               "No dependency on connect-eaas-core has been found",
               EmptyDict)>>
    ELSE <<>>

\* line 63: data['tool']['poetry'].get('plugins', {}).get('connect.eaas.ext')
ExtensionDict(poetry) ==
    IF "plugins" \in DOMAIN poetry
       /\ "connect.eaas.ext" \in DOMAIN poetry["plugins"]
    THEN poetry["plugins"]["connect.eaas.ext"]
    ELSE PyNone

\* line 78 is reached: the entry-point table is a dict
ReachesSysPathAppend(project) ==
    /\ project.toml.type = "dict"
    /\ ExtensionDict(project.toml.value).type = "dict"

\* project.toml is what load_project_toml_file(project_dir) returns: a
\* ValidationResult, or the parsed data['tool']['poetry'] as a dict
validate_pyproject_toml(project) ==
    IF project.toml.type = "ValidationResult" THEN project.toml.value
    ELSE LET poetry == project.toml.value
             messages == DependencyCheck(poetry["dependencies"])
             extension_dict == ExtensionDict(poetry)
         IN IF extension_dict.type # "dict"
            THEN ValidationResult(
                     Append(messages,
                         ValidationItem("ERROR",
                             "No extension declaration has been found",
                             EmptyDict)),
                     TRUE, EmptyDict)
            ELSE LET acc == ExtensionsLoop(extension_dict.value,
                                project.modules, possible_extensions,
                                [messages |-> messages,
                                 extensions |-> EmptyDict,
                                 exc |-> "", must_halt |-> FALSE])
                 IN IF acc.exc # "" THEN Raise(acc.exc)
                    ELSE IF acc.must_halt
                    THEN ValidationResult(acc.messages, TRUE, EmptyDict)
                    ELSE IF DOMAIN acc.extensions = {}
                    THEN ValidationResult(
                             Append(acc.messages,
                                 ValidationItem("ERROR",
                                     "Invalid extension declaration",
                                     EmptyDict)),
                             TRUE, EmptyDict)
                    ELSE ValidationResult(acc.messages, FALSE,
                             [extension_classes |-> acc.extensions])

----------------------------------------------------------------------------
(* validate_extension_class                                                *)

class_mapping ==
    [extension |-> "connect.eaas.core.extension.[Events]Extension",
     webapp |-> "connect.eaas.core.extension.WebAppExtension",
     anvil |-> "connect.eaas.core.extension.AnvilExtension"]

\* a class of any SDK base passes for every type
NotSubclassOfAnyBase(extension_type, extension_class) ==
    extension_class.bases = {}

\* lines 156-161: the class is no subclass of the base of its declared type;
\* extension_class.bases are the SDK bases the class derives from
NotSubclass(extension_type, extension_class) ==
    \/ extension_type = "extension"
       /\ extension_class.bases \cap {"Extension", "EventsExtension"} = {}
    \/ extension_type = "webapp"
       /\ "WebAppExtension" \notin extension_class.bases
    \/ extension_type = "anvil"
       /\ "AnvilExtension" \notin extension_class.bases

\* lines 153-177: the loop over the loaded classes; acc is
\* [violation, ext_class]: the first violating type (or ""), and the types
\* of the class whose descriptor is loaded (the first one of the loop)
RECURSIVE ShapeLoop(_, _, _)
ShapeLoop(extension_classes, types, acc) ==
    IF types = <<>> \/ acc.violation # "" THEN acc
    ELSE LET extension_type == Head(types) IN
         IF NotSubclass(extension_type, extension_classes[extension_type])
         THEN [acc EXCEPT !.violation = extension_type]
         ELSE ShapeLoop(extension_classes, Tail(types),
                [acc EXCEPT !.ext_class =
                    IF @ = "" THEN extension_type ELSE @])

\* lines 191-201
RECURSIVE DescriptionsLoop(_, _)
DescriptionsLoop(descriptor, descriptions) ==
    IF descriptions = <<>> THEN <<>>
    ELSE (IF Head(descriptions) \in DOMAIN descriptor
          THEN <<ValidationItem("WARNING",
                     "must be declared using the decorator",
                     [description |-> Head(descriptions)])>>
          ELSE <<>>)
         \o DescriptionsLoop(descriptor, Tail(descriptions))

validate_extension_class(context) ==
    LET extension_classes == context["extension_classes"]
        acc == ShapeLoop(extension_classes,
                         ClassItems(extension_classes, possible_extensions),
                         [violation |-> "", ext_class |-> ""])
    IN IF acc.violation # ""
       THEN ValidationResult(
                <<ValidationItem("ERROR", "is not a subclass of",
                      [extension_class |->
                           extension_classes[acc.violation].name,
                       base |-> class_mapping[acc.violation]])>>,
                TRUE, EmptyDict)
       ELSE IF acc.ext_class = ""
       THEN Raise("AttributeError")      \* None.get_descriptor()
       ELSE LET ext_class == extension_classes[acc.ext_class] IN
            IF ext_class.descriptor.type = "NoneType"
            THEN \* get_descriptor() raises FileNotFoundError
                 ValidationResult(
                     <<ValidationItem("ERROR",
                           "The extension descriptor cannot be loaded",
                           [extension_class |-> ext_class.name])>>,
                     TRUE, EmptyDict)
            ELSE ValidationResult(
                     DescriptionsLoop(ext_class.descriptor.value,
                         <<"variables", "capabilities", "schedulables">>),
                     FALSE,
                     [descriptor |-> ext_class.descriptor.value])

----------------------------------------------------------------------------
(* validate_webapp_extension                                               *)

\* lines 418-423: os.path.exists(os.path.join(dirname, 'static_root',
\* url.split('/')[-1])); url is the sequence of its '/'-separated segments
\* and static_root the names of the files under the directory. A url that
\* ends in '/' has the empty last segment, and the path joined with it is
\* the directory itself, which exists when it holds files
PathExists(extension_class, url) ==
    LET name == url[Len(url)]
    IN \/ name \in extension_class.static_root
       \/ name = "" /\ extension_class.static_root # {}

\* lines 403-427: the walk over the ui items; ui_items is the deque, popped
\* from the right; acc is [missed_files, no_url, label]
RECURSIVE UiWalk(_, _, _)
UiWalk(extension_class, ui_items, acc) ==
    IF ui_items = <<>> THEN acc
    ELSE LET ui_item == ui_items[Len(ui_items)]
             rest == SubSeq(ui_items, 1, Len(ui_items) - 1)
         IN IF "url" \notin DOMAIN ui_item
            THEN [acc EXCEPT !.no_url = TRUE,
                             !.label = IF "label" \in DOMAIN ui_item
                                       THEN <<ui_item["label"]>> ELSE <<>>]
            ELSE LET url == ui_item["url"]
                     missing == ~PathExists(extension_class, url)
                 IN UiWalk(extension_class,
                        rest \o (IF "children" \in DOMAIN ui_item
                                 THEN ui_item["children"] ELSE <<>>),
                        [acc EXCEPT !.missed_files =
                            IF missing THEN Append(@, url) ELSE @])

\* lines 376-382: some member function's source starts with '@router.'
HasRouterFunction(extension_class) ==
    \E f \in DOMAIN extension_class.functions :
        extension_class.functions[f] = "@router."

validate_webapp_extension(context) ==
    IF "webapp" \notin DOMAIN context["extension_classes"]
    THEN ValidationResult(<<>>, FALSE, context)
    ELSE LET extension_class == context["extension_classes"]["webapp"] IN
         IF extension_class.source # "@web_app(router)"
         THEN ValidationResult(
                  <<ValidationItem("ERROR",
                        "must be wrapped in @web_app(router)", EmptyDict)>>,
                  TRUE, EmptyDict)
         ELSE IF ~HasRouterFunction(extension_class)
         THEN ValidationResult(
                  <<ValidationItem("ERROR",
                        "must contain at least one router function",
                        EmptyDict)>>,
                  TRUE, EmptyDict)
         ELSE IF "descriptor" \notin DOMAIN context
         THEN Raise("KeyError")
         ELSE IF "ui" \notin DOMAIN context["descriptor"]
         THEN ValidationResult(<<>>, FALSE, context)
         ELSE LET acc == UiWalk(extension_class, context["descriptor"]["ui"],
                                [missed_files |-> <<>>, no_url |-> FALSE,
                                 label |-> <<>>])
              IN IF acc.no_url
                 THEN ValidationResult(
                          <<ValidationItem("ERROR",
                                "incorrect ui item, url is not presented",
                                [label |-> acc.label])>>,
                          TRUE, EmptyDict)
                 ELSE IF acc.missed_files # <<>>
                 THEN ValidationResult(
                          <<ValidationItem("ERROR",
                                "contains missing static files",
                                [missed_files |-> acc.missed_files])>>,
                          TRUE, EmptyDict)
                 ELSE ValidationResult(<<>>, FALSE, context)

----------------------------------------------------------------------------
(* validate_anvil_extension                                                *)

validate_anvil_extension(context) ==
    IF "anvil" \notin DOMAIN context["extension_classes"]
    THEN ValidationResult(<<>>, FALSE, context)
    ELSE LET anvil_key_var ==
                 context["extension_classes"]["anvil"].anvil_key_variable
         IN IF anvil_key_var.type = "str" /\ anvil_key_var.value # <<>>
               /\ ~variable_name_regex_match(anvil_key_var.value)
            THEN ValidationResult(
                     <<ValidationItem("ERROR",
                           "Invalid Anvil key variable name",
                           [name |-> anvil_key_var.value])>>,
                     FALSE, context)
            ELSE ValidationResult(<<>>, FALSE, context)

----------------------------------------------------------------------------
(* Loaded classes and the inputs of the validators                         *)

\* What the validators read of a loaded class: __name__, the SDK bases it
\* derives from, get_descriptor() (PyNone: extension.json is absent),
\* get_variables(), get_events(), get_schedulables(), the parameters of its
\* methods, the first line of the source of its functions and of the class,
\* the files under static_root, get_anvil_key_variable().
PlainClass ==
    [name |-> "MyExtension", bases |-> {"EventsExtension"},
     descriptor |-> PyDict(EmptyDict),
     variables |-> <<>>, events |-> <<>>, schedulables |-> <<>>,
     methods |-> EmptyDict, functions |-> EmptyDict, source |-> "class",
     static_root |-> {}, anvil_key_variable |-> PyNone]

\* all sequences over S of length 0..n
SeqUpTo(S, n) == UNION {[1..k -> S] : k \in 0..n}

\* the largest number of variables of one class, names only
MaxVariables == 3

\* the largest number of variables of each class, when two classes are loaded
MaxOtherVariables == 2

\* the largest number of variables of one class that carry attributes
MaxAttrVariables == 2

\* 'A', 'B', '1A', 'A ', 'A<newline>'
SampleNames ==
    {<<"A">>, <<"B">>, <<"1", "A">>, <<"A", " ">>, <<"A", "\n">>}

\* a variable entry with only a name, and the entry {} without one
NameOnlyEntries == {[name |-> PyStr(n)] : n \in SampleNames} \cup {EmptyDict}

\* entries with initial_value (a str or an int) and secure (a bool or a
\* str) present or not
AttrEntries ==
    {n @@ iv @@ sec :
        n \in {[name |-> PyStr(<<"A">>)], [name |-> PyStr(<<"1", "A">>)],
                EmptyDict},
        iv \in {EmptyDict, [initial_value |-> PyStr(<<"x">>)],
                [initial_value |-> PyInt(<<"1">>)]},
        sec \in {EmptyDict, [secure |-> PyBool(<<"True">>)],
                 [secure |-> PyStr(<<"yes">>)]}}

\* the entries of the classes of a project that loads two of them
OtherClassEntries ==
    {[name |-> PyStr(n)] : n \in {<<"A">>, <<"B">>, <<"1", "A">>}}

ClassWithVariables(variables) == [PlainClass EXCEPT !.variables = variables]

VariablesInputs ==
    {[extension_classes |-> [extension |-> ClassWithVariables(v)]] :
        v \in SeqUpTo(NameOnlyEntries, MaxVariables)
              \cup SeqUpTo(AttrEntries, MaxAttrVariables)}
    \cup
    {[extension_classes |->
        [extension |-> ClassWithVariables(v),
         anvil |-> ClassWithVariables(w)]] :
        v \in SeqUpTo(OtherClassEntries, MaxOtherVariables),
        w \in SeqUpTo(OtherClassEntries, MaxOtherVariables)}

\* the authoritative event schema, as get_event_definitions(config) yields
\* it: one type that restricts the statuses and one that allows none
EventSchema ==
    << [type |-> "asset_purchase_request_processing",
        object_statuses |-> <<"pending", "inquiring">>],
       [type |-> "installation_status_change",
        object_statuses |-> <<>>] >>

\* the largest number of events (and of schedulables) of the class
MaxEvents == 2

\* handlers with one, two and three parameters
SampleMethods ==
    [process_one |-> <<"self">>,
     process_two |-> <<"self", "request">>,
     process_three |-> <<"self", "request", "extra">>]

\* statuses=None, [] and lists with allowed and with unknown statuses
SampleStatuses ==
    {PyNone, PyList(<<>>), PyList(<<"pending">>), PyList(<<"bogus">>),
     PyList(<<"pending", "bogus">>), PyList(<<"bogus", "other">>)}

SampleEvents ==
    [method : DOMAIN SampleMethods,
     event_type : {"asset_purchase_request_processing",
                   "installation_status_change", "not_a_type"},
     statuses : SampleStatuses]

SampleSchedulables == [method : DOMAIN SampleMethods]

ClassWithEvents(events, schedulables) ==
    [PlainClass EXCEPT !.events = events, !.schedulables = schedulables,
                       !.methods = SampleMethods]

EventsInputs ==
    {[extension_classes |-> [extension |-> ClassWithEvents(e, <<>>)]] :
        e \in SeqUpTo(SampleEvents, MaxEvents)}
    \cup {[extension_classes |-> [webapp |-> PlainClass]]}

SchedulablesInputs ==
    {[extension_classes |-> [extension |-> ClassWithEvents(<<>>, sch)]] :
        sch \in SeqUpTo(SampleSchedulables, MaxEvents)}
    \cup {[extension_classes |-> [webapp |-> PlainClass]]}

\* the largest number of services of docker-compose.yml
MaxServices == 2

SampleRunnerVersions == {"24.1", "25.0"}

\* a service body: a non-mapping, nothing, a mapping without image, and
\* mappings with the runner image of either version or with another image
SampleServiceBodies ==
    {PyStr(<<"build">>), PyNone, PyDict(EmptyDict)}
    \cup {PyDict([image |->
              PyStr(<<"cloudblueconnect/connect-extension-runner:", v>>)]) :
            v \in SampleRunnerVersions}
    \cup {PyDict([image |-> PyStr(<<"wrong:", "1.0">>)])}

SampleServiceNames == {"dev", "bash", "test"}

\* the items of a services mapping: distinct names, in file order
SampleServices ==
    {sv \in SeqUpTo([name : SampleServiceNames, body : SampleServiceBodies],
                    MaxServices) :
        \A i, j \in 1..Len(sv) : i # j => sv[i].name # sv[j].name}

\* docker-compose.yml: absent, unparsable, empty, without services, with
\* services: (nothing), with a list of services, with a mapping of services
ComposeFiles ==
    {[state |-> "absent"], [state |-> "invalid"],
     [state |-> "parsed", data |-> PyNone],
     [state |-> "parsed", data |-> PyDict(EmptyDict)],
     [state |-> "parsed", data |-> PyDict([services |-> PyNone])],
     [state |-> "parsed", data |-> PyDict([services |-> PyList(<<>>)])],
     [state |-> "parsed", data |-> PyDict([services |-> PyList(<<"dev">>)])]}
    \cup {[state |-> "parsed", data |-> PyDict([services |-> PyDict(sv)])] :
            sv \in SampleServices}

\* a class of the project, by name
Class(name, overrides) == overrides @@ [PlainClass EXCEPT !.name = name]

PurchaseEvent(method, statuses) ==
    [method |-> method, event_type |-> "asset_purchase_request_processing",
     statuses |-> statuses]

\* the ui tree of a descriptor: the values of descriptor['ui'], in order
UiItem(label, url) == [label |-> label, url |-> url]

SampleUi ==
    << UiItem("Settings", <<"static", "settings.html">>),
       [label |-> "Modules", url |-> <<"static", "index.html">>,
        children |->
          << UiItem("Page 1", <<"static", "page1.html">>),
             [label |-> "Page 2", url |-> <<"static", "page2.html">>,
              children |-> << UiItem("Page 3", <<"static", "page3.html">>) >>]
          >>] >>

UiWithoutUrl ==
    << UiItem("Settings", <<"static", "settings.html">>),
       [label |-> "Modules", url |-> <<"static", "index.html">>,
        children |-> << [label |-> "Page 1"] >>] >>

SampleStaticRoot ==
    {"settings.html", "index.html", "page1.html", "page2.html", "page3.html"}

\* the classes that the modules of the sample projects define
EventsClasses ==
    [MyExtension |->
        Class("MyExtension",
          [events |-> <<PurchaseEvent("process_two", PyList(<<"pending">>))>>,
           schedulables |-> <<[method |-> "process_two"]>>,
           variables |-> <<[name |-> PyStr(<<"A">>),
                            initial_value |-> PyStr(<<"x">>)]>>,
           methods |-> SampleMethods]),
     FindingsExtension |->
        Class("FindingsExtension",
          [events |-> <<[method |-> "process_three",
                         event_type |-> "not_a_type",
                         statuses |-> PyList(<<>>)],
                        PurchaseEvent("process_one", PyList(<<"bogus">>))>>,
           schedulables |-> <<[method |-> "process_three"]>>,
           variables |-> <<[name |-> PyStr(<<"A">>)],
                           [name |-> PyStr(<<"A">>),
                            secure |-> PyStr(<<"yes">>)],
                           [name |-> PyStr(<<"1", "A">>),
                            initial_value |-> PyInt(<<"1">>)]>>,
           methods |-> SampleMethods]),
     AnyStatusExtension |->
        Class("AnyStatusExtension",
          [events |-> <<PurchaseEvent("process_two", PyNone)>>,
           methods |-> SampleMethods]),
     NotAnExtension |-> Class("NotAnExtension", [bases |-> {}]),
     NoDescriptorExtension |->
        Class("NoDescriptorExtension", [descriptor |-> PyNone]),
     OldDescriptorExtension |->
        Class("OldDescriptorExtension",
          [descriptor |-> PyDict([variables |-> <<>>,
                                  capabilities |-> <<>>,
                                  schedulables |-> <<>>])])]

WebAppClass(name, overrides) ==
    overrides @@
    Class(name,
      [bases |-> {"WebAppExtension"}, source |-> "@web_app(router)",
       functions |-> [index |-> "@router.", helper |-> "def"],
       descriptor |-> PyDict([ui |-> SampleUi]),
       static_root |-> SampleStaticRoot])

WebAppClasses ==
    [MyWebApp |-> WebAppClass("MyWebApp", EmptyDict),
     PlainWebApp |->
        WebAppClass("PlainWebApp", [descriptor |-> PyDict(EmptyDict)]),
     UnwrappedWebApp |->
        WebAppClass("UnwrappedWebApp", [source |-> "@variables("]),
     NoRouterWebApp |->
        WebAppClass("NoRouterWebApp", [functions |-> [helper |-> "def"]]),
     MissingStaticWebApp |->
        WebAppClass("MissingStaticWebApp",
                    [static_root |-> {"settings.html", "page2.html"}]),
     NoUrlWebApp |->
        WebAppClass("NoUrlWebApp",
                    [descriptor |-> PyDict([ui |-> UiWithoutUrl])])]

AnvilClass(name, key) ==
    Class(name, [bases |-> {"AnvilExtension"}, anvil_key_variable |-> key])

AnvilClasses ==
    [MyAnvilApp |-> AnvilClass("MyAnvilApp", PyStr(<<"A", "_", "B">>)),
     BadKeyAnvilApp |-> AnvilClass("BadKeyAnvilApp", PyStr(<<"1", "A">>)),
     NoKeyAnvilApp |-> AnvilClass("NoKeyAnvilApp", PyNone)]

Module(import, deprecated, classes) ==
    [import |-> import, deprecated |-> deprecated, classes |-> classes]

\* the modules importable from project_dir: a package absent from the
\* mapping is not found (ModuleNotFoundError, an ImportError)
SampleModules ==
    (<<"pkg.events">> :> Module("ok", {}, EventsClasses))
    @@ (<<"pkg.webapp">> :> Module("ok", {}, WebAppClasses))
    @@ (<<"pkg.anvil">> :> Module("ok", {}, AnvilClasses))
    @@ (<<"pkg.deprecated">> :>
          Module("ok", {"CustomEventResponse", "ValidationResponse"},
                 EventsClasses))
    @@ (<<"pkg.circular">> :> Module("ImportError", {}, EmptyDict))
    @@ (<<"pkg.broken">> :> Module("SyntaxError", {}, EmptyDict))

\* entry-point references: package:ClassName
Ref(package, class_name) == <<package, class_name>>

\* references that do not resolve: no ':', a package that is not found, a
\* module whose import raises ImportError or another error, a class that
\* the module does not define
BrokenRefs ==
    {<<"pkg.events.MyExtension">>, Ref("pkg.missing", "MyExtension"),
     Ref("pkg.circular", "MyExtension"), Ref("pkg.broken", "MyExtension"),
     Ref("pkg.events", "Undefined")}

\* the dicts with keys among `types`, the value of type t drawn from refs[t]
Tables(types, refs) ==
    UNION {{table \in [present -> UNION {refs[t] : t \in present}] :
               \A t \in present : table[t] \in refs[t]} :
           present \in SUBSET types}

DependencySets == SUBSET {"connect-extension-runner", "connect-eaas-core"}

\* data['tool']['poetry'] with the entry-point table extension_dict
Poetry(dependencies, extension_dict) ==
    [dependencies |-> dependencies,
     plugins |-> ("connect.eaas.ext" :> extension_dict)]

\* what load_project_toml_file returns when pyproject.toml cannot be loaded
TomlNotLoaded ==
    [type |-> "ValidationResult",
     value |-> ValidationResult(
                   <<ValidationItem("ERROR",
                         "The mandatory descriptor file is not present",
                         EmptyDict)>>,
                   TRUE, EmptyDict)]

\* what the chain reads of project_dir: pyproject.toml as loaded and
\* docker-compose.yml
Project(toml, compose_file) == [toml |-> toml, compose_file |-> compose_file]

\* project_dir with the modules importable from it
ProjectDir(p) == [toml |-> p.toml, compose_file |-> p.compose_file,
                  modules |-> SampleModules]

PyprojectRefs ==
    BrokenRefs \cup {Ref("pkg.events", "MyExtension"),
                     Ref("pkg.deprecated", "MyExtension")}

PyprojectInputs ==
    {Project(TomlNotLoaded, [state |-> "absent"])}
    \cup
    {Project([type |-> "dict", value |-> poetry], [state |-> "absent"]) :
        poetry \in
            {[dependencies |-> d] : d \in DependencySets}
            \cup {[dependencies |-> d, plugins |-> EmptyDict] :
                    d \in DependencySets}
            \cup {Poetry(d, PyStr(<<"pkg.events:MyExtension">>)) :
                    d \in DependencySets}
            \cup {Poetry(d, PyDict("other" :> Ref("pkg.events", "MyExtension"))) :
                    d \in DependencySets}
            \cup {Poetry(d, PyDict(t)) :
                    d \in DependencySets,
                    t \in Tables({"extension", "webapp", "anvil"},
                                 [t \in {"extension", "webapp", "anvil"}
                                     |-> PyprojectRefs])}}

----------------------------------------------------------------------------
(* The capability annotations variables and anvil_key_variable, and the    *)
(* accessors get_variables and get_anvil_key_variable. connect/eaas/core/  *)
(* decorators.py and extension.py are not among the sources at hand: the   *)
(* annotations are modelled from the specification's description of the    *)
(* metadata model, with the merge direction that the assertions of         *)
(* test_extension.py fix.                                                  *)

\* a class body before any annotation is applied: no variables attribute,
\* no Anvil key variable
UndecoratedClass == [variables |-> <<>>, anvil_key_variable |-> PyNone]

\* the entry that anvil_key_variable(name) declares
AnvilKeyEntry(name) ==
    [name |-> PyStr(name), initial_value |-> PyStr(<<"changeme!">>),
     secure |-> PyBool(<<"True">>)]

Declares(declared, name) ==
    \E i \in 1..Len(declared) : declared[i]["name"] = name

\* an entry of `variables` replacing the one declared with its name
RECURSIVE AppendOverriding(_, _)
AppendOverriding(declared, variables) ==
    IF variables = <<>> THEN declared
    ELSE AppendOverriding(
             Append(SelectSeq(declared,
                        LAMBDA v : v["name"] # Head(variables)["name"]),
                    Head(variables)),
             Tail(variables))

\* the entries of `variables` are appended to those declared, an entry
\* whose name is declared already being left out
RECURSIVE AppendUndeclared(_, _)
AppendUndeclared(declared, variables) ==
    IF variables = <<>> THEN declared
    ELSE AppendUndeclared(
             IF Declares(declared, Head(variables)["name"]) THEN declared
             ELSE Append(declared, Head(variables)),
             Tail(variables))

\* @variables(variables) applied to cls
variables_annotation(variables, cls) ==
    [cls EXCEPT !.variables = AppendUndeclared(@, variables)]

\* the name is recorded and no variable is declared
anvil_key_variable_name_only(name, cls) ==
    [cls EXCEPT !.anvil_key_variable = PyStr(name)]

\* @anvil_key_variable(name) applied to cls
anvil_key_variable_annotation(name, cls) ==
    [cls EXCEPT !.anvil_key_variable = PyStr(name),
                !.variables = AppendUndeclared(@, <<AnvilKeyEntry(name)>>)]

get_variables(cls) == cls.variables

get_anvil_key_variable(cls) == cls.anvil_key_variable

\* the largest number of annotations on one class
MaxAnnotations == 2

ANVIL_API_KEY ==
    <<"A", "N", "V", "I", "L", "_", "A", "P", "I", "_", "K", "E", "Y">>

MY_VAR == <<"M", "Y", "_", "V", "A", "R">>

\* the entries of the lists given to @variables in the tests, and one more
\* value for MY_VAR
SampleDeclaredEntries ==
    {[name |-> PyStr(MY_VAR), initial_value |-> PyStr(<<"my_val">>)],
     [name |-> PyStr(MY_VAR), initial_value |-> PyStr(<<"other">>),
      secure |-> PyBool(<<"True">>)],
     [name |-> PyStr(ANVIL_API_KEY), initial_value |-> PyStr(<<"changeme!">>),
      secure |-> PyBool(<<"True">>)],
     [name |-> PyStr(ANVIL_API_KEY), initial_value |-> PyStr(<<"test!">>),
      secure |-> PyBool(<<"False">>)]}

\* the largest list given to @variables
MaxDeclared == 2

\* lists of entries with distinct names
SampleDeclaredLists ==
    {l \in SeqUpTo(SampleDeclaredEntries, MaxDeclared) :
        \A i, j \in 1..Len(l) : i # j => l[i]["name"] # l[j]["name"]}

SampleKeyNames == {ANVIL_API_KEY, MY_VAR}

NoClassDefinition ==
    /\ decorated = UndecoratedClass
    /\ annotations = <<>>

----------------------------------------------------------------------------
(* Unit specifications: one validator called once on a drawn input         *)

NoCall == [fn |-> "none"]

NoResult == Raise("not called")

\* no run of the chain
ChainIdle ==
    /\ project_dir = Project(TomlNotLoaded, [state |-> "absent"])
    /\ shared_context = EmptyDict
    /\ all_messages = <<>>
    /\ step = 1
    /\ status = "idle"
    /\ success = FALSE
    /\ invoked = <<>>
    /\ sys_path = <<>>

UnitInit == call = NoCall /\ ret = NoResult /\ ChainIdle /\ NoClassDefinition

ClassInit == call = NoCall /\ ret = NoResult /\ ChainIdle /\ NoClassDefinition

ApplyVariables ==
    /\ Len(annotations) < MaxAnnotations
    /\ \E variables \in SampleDeclaredLists :
        /\ decorated' = variables_annotation(variables, decorated)
        /\ annotations' = Append(annotations,
                             [kind |-> "variables", variables |-> variables])
    /\ UNCHANGED <<unit_vars, chain_vars>>

ApplyAnvilKeyVariable ==
    /\ Len(annotations) < MaxAnnotations
    /\ \E name \in SampleKeyNames :
        /\ decorated' = anvil_key_variable_annotation(name, decorated)
        /\ annotations' = Append(annotations,
                             [kind |-> "anvil_key_variable",
                              variables |-> <<AnvilKeyEntry(name)>>])
    /\ UNCHANGED <<unit_vars, chain_vars>>

SpecAnnotations ==
    ClassInit /\ [][ApplyVariables \/ ApplyAnvilKeyVariable]_vars

CallValidateVariables ==
    /\ call = NoCall
    /\ UNCHANGED <<chain_vars, class_vars>>
    /\ \E context \in VariablesInputs :
        /\ call' = [fn |-> "validate_variables", context |-> context]
        /\ ret' = validate_variables(context)

SpecVariables == UnitInit /\ [][CallValidateVariables]_vars

CallValidateEvents ==
    /\ call = NoCall
    /\ UNCHANGED <<chain_vars, class_vars>>
    /\ \E context \in EventsInputs :
        /\ call' = [fn |-> "validate_events", config |-> EventSchema,
                    context |-> context]
        /\ ret' = validate_events(EventSchema, context)

CallValidateSchedulables ==
    /\ call = NoCall
    /\ UNCHANGED <<chain_vars, class_vars>>
    /\ \E context \in SchedulablesInputs :
        /\ call' = [fn |-> "validate_schedulables", context |-> context]
        /\ ret' = validate_schedulables(context)

SpecEvents ==
    UnitInit /\ [][CallValidateEvents \/ CallValidateSchedulables]_vars

CallValidateDockerCompose ==
    /\ call = NoCall
    /\ UNCHANGED <<chain_vars, class_vars>>
    /\ \E compose_file \in ComposeFiles, version \in SampleRunnerVersions :
        /\ call' = [fn |-> "validate_docker_compose_yml",
                    compose_file |-> compose_file,
                    context |-> [runner_version |-> version]]
        /\ ret' = validate_docker_compose_yml(compose_file,
                                              [runner_version |-> version])

SpecCompose == UnitInit /\ [][CallValidateDockerCompose]_vars

CallValidatePyprojectToml ==
    /\ call = NoCall
    /\ UNCHANGED <<chain_vars, class_vars>>
    /\ \E project \in PyprojectInputs :
        /\ call' = [fn |-> "validate_pyproject_toml", toml |-> project.toml]
        /\ ret' = validate_pyproject_toml(ProjectDir(project))

SpecPyproject == UnitInit /\ [][CallValidatePyprojectToml]_vars

\* every validator that reads the project's files
SpecProjectFiles ==
    UnitInit
    /\ [][CallValidatePyprojectToml \/ CallValidateDockerCompose]_vars

\* descriptors that carry any of the keys the annotations have replaced
OldDescriptors ==
    {PyDict([k \in keys |-> <<>>]) :
        keys \in SUBSET {"variables", "capabilities", "schedulables"}}

\* the classes a context can hold for each type: classes of the type's
\* base with and without a descriptor file, and classes of another base
ShapeClasses ==
    [extension |->
        {Class("MyExtension", [descriptor |-> d]) : d \in OldDescriptors}
        \cup {EventsClasses["NotAnExtension"],
              EventsClasses["NoDescriptorExtension"],
              WebAppClasses["MyWebApp"]},
     webapp |->
        {WebAppClasses["MyWebApp"], WebAppClasses["PlainWebApp"],
         WebAppClass("NoDescriptorWebApp", [descriptor |-> PyNone]),
         EventsClasses["MyExtension"]},
     anvil |->
        {AnvilClasses["MyAnvilApp"],
         [AnvilClasses["NoKeyAnvilApp"] EXCEPT !.descriptor = PyNone],
         EventsClasses["NotAnExtension"]}]

\* context['extension_classes'] as validate_pyproject_toml patches it: one
\* class for each declared type, at least one type
ExtensionClassInputs ==
    {[extension_classes |-> classes] :
        classes \in Tables({"extension", "webapp", "anvil"}, ShapeClasses)
                    \ {EmptyDict}}

CallValidateExtensionClass ==
    /\ call = NoCall
    /\ UNCHANGED <<chain_vars, class_vars>>
    /\ \E context \in ExtensionClassInputs :
        /\ call' = [fn |-> "validate_extension_class", context |-> context]
        /\ ret' = validate_extension_class(context)

SpecExtensionClass == UnitInit /\ [][CallValidateExtensionClass]_vars

\* the largest number of top-level sections of descriptor['ui']
MaxUiItems == 2

\* urls of ui items: two files, and a url that ends in '/'
SampleUrls ==
    {<<"static", "a.html">>, <<"static", "b.html">>, <<"static", "">>}

\* ui items without children: with a url, and one without
UiLeaves == {UiItem("Leaf", u) : u \in SampleUrls} \cup {[label |-> "Leaf"]}

UiParent(url, children) ==
    [label |-> "Parent", url |-> url, children |-> children]

\* top-level sections: leaves, sections with one or two children, and
\* sections whose child has children of its own
UiSections ==
    UiLeaves
    \cup {UiParent(<<"static", "a.html">>, <<c>>) : c \in UiLeaves}
    \cup {UiParent(<<"static", "b.html">>,
                   <<UiItem("Leaf", <<"static", "a.html">>),
                     UiItem("Leaf", <<"static", "b.html">>)>>)}
    \cup {UiParent(<<"static", "a.html">>,
                   <<UiParent(<<"static", "a.html">>, <<c>>)>>) :
            c \in {UiItem("Leaf", <<"static", "b.html">>),
                   [label |-> "Leaf"]}}

SampleStaticRoots == {{"a.html", "b.html"}, {"a.html"}, {}}

\* contexts as the web-app validator finds them: a wrapped webapp class
\* with a router function, a descriptor declaring ui, and the files of its
\* static_root; the webapp classes of the sample projects with their own
\* descriptors; and a context without a webapp class
WebappInputs ==
    {[extension_classes |->
          [webapp |-> WebAppClass("MyWebApp", [static_root |-> files])],
      descriptor |-> [ui |-> ui]] :
        ui \in SeqUpTo(UiSections, MaxUiItems), files \in SampleStaticRoots}
    \cup
    {[extension_classes |-> [webapp |-> WebAppClasses[c]],
      descriptor |-> WebAppClasses[c].descriptor.value] :
        c \in DOMAIN WebAppClasses}
    \cup
    {[extension_classes |-> [extension |-> EventsClasses["MyExtension"]],
      descriptor |-> EmptyDict]}

CallValidateWebappExtension ==
    /\ call = NoCall
    /\ UNCHANGED <<chain_vars, class_vars>>
    /\ \E context \in WebappInputs :
        /\ call' = [fn |-> "validate_webapp_extension", context |-> context]
        /\ ret' = validate_webapp_extension(context)

SpecWebapp == UnitInit /\ [][CallValidateWebappExtension]_vars

\* contexts whose anvil class names its key variable with each sample name,
\* with the empty name or not at all, and a context without an anvil class
AnvilInputs ==
    {[extension_classes |-> [anvil |-> AnvilClass("MyAnvilApp", key)]] :
        key \in {PyStr(n) : n \in SampleNames} \cup {PyStr(<<>>), PyNone}}
    \cup
    {[extension_classes |-> [extension |-> EventsClasses["MyExtension"]]]}

CallValidateAnvilExtension ==
    /\ call = NoCall
    /\ UNCHANGED <<chain_vars, class_vars>>
    /\ \E context \in AnvilInputs :
        /\ call' = [fn |-> "validate_anvil_extension", context |-> context]
        /\ ret' = validate_anvil_extension(context)

\* the validators whose findings do not halt the chain
SpecNonHalting ==
    UnitInit
    /\ [][\/ CallValidateDockerCompose
          \/ CallValidateEvents
          \/ CallValidateVariables
          \/ CallValidateSchedulables
          \/ CallValidateAnvilExtension]_vars

\* the validators whose findings halt the chain
SpecHalting ==
    UnitInit
    /\ [][\/ CallValidatePyprojectToml
          \/ CallValidateExtensionClass
          \/ CallValidateWebappExtension]_vars

----------------------------------------------------------------------------
(* The chain: the orchestrator runs extension_validators in list order     *)

\* the web-app validator ahead of the validator that loads the descriptor
extension_validators_webapp_first ==
    <<"validate_pyproject_toml", "validate_docker_compose_yml",
      "validate_webapp_extension", "validate_extension_class",
      "validate_events", "validate_variables", "validate_schedulables",
      "validate_anvil_extension">>

extension_validators_swapped ==
    <<"validate_pyproject_toml", "validate_extension_class",
      "validate_docker_compose_yml", "validate_events",
      "validate_variables", "validate_schedulables",
      "validate_webapp_extension", "validate_anvil_extension">>

extension_validators ==
    <<"validate_pyproject_toml", "validate_docker_compose_yml",
      "validate_extension_class", "validate_events", "validate_variables",
      "validate_schedulables", "validate_webapp_extension",
      "validate_anvil_extension">>

\* the runner version the caller supplies before the run
SuppliedRunnerVersion == "24.1"

\* the entry-point tables of the sample projects
ChainTables ==
    Tables({"extension", "webapp", "anvil"},
        [extension |->
            {Ref("pkg.events", c) : c \in DOMAIN EventsClasses}
            \cup {Ref("pkg.deprecated", "MyExtension"),
                  <<"pkg.events.MyExtension">>,
                  Ref("pkg.missing", "MyExtension")},
         webapp |-> {Ref("pkg.webapp", c) : c \in DOMAIN WebAppClasses},
         anvil |-> {Ref("pkg.anvil", c) : c \in DOMAIN AnvilClasses}])

ChainComposeFiles ==
    {[state |-> "absent"], [state |-> "invalid"],
     [state |-> "parsed", data |-> PyNone],
     [state |-> "parsed",
      data |-> PyDict([services |-> PyDict(
                  <<[name |-> "dev",
                     body |-> PyDict([image |-> PyStr(<<"wrong:", "1.0">>)])],
                    [name |-> "bash",
                     body |-> PyDict([image |->
                        PyStr(<<"cloudblueconnect/connect-extension-runner:",
                                "24.1">>)])]>>)])]}

ChainProjects ==
    {Project(TomlNotLoaded, c) : c \in ChainComposeFiles}
    \cup
    {Project([type |-> "dict", value |-> [dependencies |-> d]], c) :
        d \in {{"connect-eaas-core"}}, c \in ChainComposeFiles}
    \cup
    {Project([type |-> "dict", value |-> Poetry(d, PyDict(t))], c) :
        d \in {{"connect-eaas-core"}, {}},
        t \in ChainTables,
        c \in ChainComposeFiles}

\* the orchestrator starts a run: a fresh context holding runner_version
ChainInit ==
    /\ call = NoCall
    /\ ret = NoResult
    /\ project_dir \in ChainProjects
    /\ shared_context = [runner_version |-> SuppliedRunnerVersion]
    /\ all_messages = <<>>
    /\ step = 1
    /\ status = "running"
    /\ success = TRUE
    /\ invoked = <<>>
    /\ sys_path = <<>>
    /\ NoClassDefinition

\* the messages the orchestrator keeps of a result
KeptMessages(result) == result.messages

\* one turn of the orchestrator's loop: the validator named `validator` is
\* the next of the list and has produced `result`. The messages are kept
\* whether or not the result halts; a halting result ends the loop, any
\* other one has its patch merged into the context; an exception ends the
\* run without a verdict.
Invoke(validator, result) ==
    /\ status = "running"
    /\ step <= Len(extension_validators)
    /\ extension_validators[step] = validator
    /\ invoked' = Append(invoked,
                     [validator |-> validator, exc |-> result.exc,
                      messages |-> result.messages,
                      must_halt |-> result.must_halt])
    /\ IF result.exc # ""
       THEN /\ status' = "raised"
            /\ UNCHANGED <<all_messages, shared_context, step, success>>
       ELSE /\ all_messages' = all_messages \o KeptMessages(result)
            /\ success' = (/\ success
                           /\ ~result.must_halt
                           /\ \A i \in 1..Len(result.messages) :
                                 result.messages[i].level # "ERROR")
            /\ IF result.must_halt
               THEN /\ status' = "halted"
                    /\ UNCHANGED <<shared_context, step>>
               ELSE /\ shared_context' =
                          Update(shared_context, result.context)
                    /\ step' = step + 1
                    /\ status' = IF step = Len(extension_validators)
                                 THEN "completed" ELSE "running"
    /\ UNCHANGED <<call, ret, project_dir, class_vars>>

RunValidatePyprojectToml ==
    /\ Invoke("validate_pyproject_toml",
              validate_pyproject_toml(ProjectDir(project_dir)))
    /\ sys_path' = IF ReachesSysPathAppend(project_dir)
                   THEN Append(sys_path, "project_dir") ELSE sys_path

RunValidateDockerCompose ==
    /\ Invoke("validate_docker_compose_yml",
              validate_docker_compose_yml(project_dir.compose_file,
                                          shared_context))
    /\ UNCHANGED sys_path

RunValidateExtensionClass ==
    /\ Invoke("validate_extension_class",
              validate_extension_class(shared_context))
    /\ UNCHANGED sys_path

RunValidateEvents ==
    /\ Invoke("validate_events",
              validate_events(EventSchema, shared_context))
    /\ UNCHANGED sys_path

RunValidateVariables ==
    /\ Invoke("validate_variables", validate_variables(shared_context))
    /\ UNCHANGED sys_path

RunValidateSchedulables ==
    /\ Invoke("validate_schedulables",
              validate_schedulables(shared_context))
    /\ UNCHANGED sys_path

RunValidateWebappExtension ==
    /\ Invoke("validate_webapp_extension",
              validate_webapp_extension(shared_context))
    /\ UNCHANGED sys_path

RunValidateAnvilExtension ==
    /\ Invoke("validate_anvil_extension",
              validate_anvil_extension(shared_context))
    /\ UNCHANGED sys_path

\* the orchestrator returns (messages, success)
Return ==
    /\ status \in {"halted", "completed"}
    /\ status' = "returned"
    /\ UNCHANGED <<call, ret, project_dir, shared_context, all_messages,
                   step, success, invoked, sys_path, class_vars>>

Next ==
    \/ RunValidatePyprojectToml
    \/ RunValidateDockerCompose
    \/ RunValidateExtensionClass
    \/ RunValidateEvents
    \/ RunValidateVariables
    \/ RunValidateSchedulables
    \/ RunValidateWebappExtension
    \/ RunValidateAnvilExtension
    \/ Return

Spec == ChainInit /\ [][Next]_vars

----------------------------------------------------------------------------
(* Claims about validate_variables                                         *)

\* the positions of the items of `messages` with message text `text`
ItemsWithText(messages, text) ==
    {i \in 1..Len(messages) : messages[i].text = text}

\* the positions of the items with message text `text` that embed name n
ItemsNaming(messages, text, n) ==
    {i \in ItemsWithText(messages, text) : messages[i].args.name = n}

\* the positions of the entries of a variable list that are named n
Occurrences(variables, n) ==
    {i \in 1..Len(variables) :
        "name" \in DOMAIN variables[i] /\ variables[i]["name"].value = n}

\* the types of the classes of the call's context
CalledTypes == DOMAIN call.context["extension_classes"]

CalledVariables(t) == call.context["extension_classes"][t].variables

RECURSIVE SumOver(_, _)
SumOver(S, f) ==
    IF S = {} THEN 0
    ELSE LET x == CHOOSE y \in S : TRUE IN f[x] + SumOver(S \ {x}, f)

\* the occurrences of name n after its first one, summed over the classes
RepeatedOccurrences(n) ==
    SumOver(CalledTypes,
        [t \in CalledTypes |->
            LET k == Cardinality(Occurrences(CalledVariables(t), n))
            IN IF k > 0 THEN k - 1 ELSE 0])

\* C6: validate_variables emits exactly one duplicate-name ERROR for each
\* occurrence of a name after its first occurrence in the list of one class
\* (k occurrences give k-1 ERRORs, one occurrence gives none), the names
\* being compared within each class only; every duplicate-name item is an
\* ERROR.
C6_DuplicatePerRepeatedOccurrence ==
    (call.fn = "validate_variables" /\ ret.exc = "") =>
        /\ \A n \in SampleNames :
              Cardinality(ItemsNaming(ret.messages,
                                      "Duplicate variable name", n))
                  = RepeatedOccurrences(n)
        /\ \A i \in ItemsWithText(ret.messages, "Duplicate variable name") :
              /\ ret.messages[i].level = "ERROR"
              /\ ret.messages[i].args.name \in SampleNames

\* a name twice in one class and once more in another class: one
\* duplicate-name ERROR
C6_Witness ==
    /\ call.fn = "validate_variables"
    /\ ret.exc = ""
    /\ CalledTypes = {"extension", "anvil"}
    /\ Cardinality(Occurrences(CalledVariables("extension"), <<"A">>)) = 2
    /\ Cardinality(Occurrences(CalledVariables("anvil"), <<"A">>)) = 1
    /\ Cardinality(ItemsNaming(ret.messages, "Duplicate variable name",
                               <<"A">>)) = 1

\* a letter followed by zero or more letters, digits, '_', '-', '.'
WellFormedName(n) ==
    /\ Len(n) >= 1
    /\ n[1] \in Letters
    /\ \A i \in 2..Len(n) : n[i] \in NameChars

\* the entries named n, summed over the classes
NamedOccurrences(n) ==
    SumOver(CalledTypes,
        [t \in CalledTypes |->
            Cardinality(Occurrences(CalledVariables(t), n))])

\* C7: for every variable entry with a string name, validate_variables
\* emits exactly one invalid-name ERROR if the name is not a letter followed
\* by zero or more letters, digits, '_', '-', '.', and none if it is,
\* whatever the entry's duplicate, initial_value and secure findings.
C7_InvalidNamePerEntry ==
    (call.fn = "validate_variables" /\ ret.exc = "") =>
        \A n \in SampleNames :
            Cardinality(ItemsNaming(ret.messages, "Invalid variable name", n))
                = IF WellFormedName(n) THEN 0 ELSE NamedOccurrences(n)

----------------------------------------------------------------------------
(* Claims about validate_events                                            *)

CalledEvents == call.context["extension_classes"]["extension"].events

CalledMethods == call.context["extension_classes"]["extension"].methods

EventsCalled ==
    /\ call.fn = "validate_events"
    /\ "extension" \in DOMAIN call.context["extension_classes"]

\* the object_statuses of a type of the supplied schema
AllowedStatuses(event_type) ==
    LET i == CHOOSE j \in 1..Len(call.config) :
                 call.config[j].type = event_type
    IN Range(call.config[i].object_statuses)

\* the statuses an entry declares: none when they are empty or absent
DeclaredStatuses(event) ==
    IF event.statuses.type = "list" THEN Range(event.statuses.value) ELSE {}

\* what the claim expects for one entry with a (self, request) handler
ExpectedEventMessages(event) ==
    IF event.event_type \notin {call.config[j].type : j \in 1..Len(call.config)}
    THEN <<ValidationItem("ERROR", "The event type is not valid",
               [event_type |-> event.event_type])>>
    ELSE IF DeclaredStatuses(event) \ AllowedStatuses(event.event_type) # {}
    THEN <<ValidationItem("ERROR", "The status/es are invalid",
               [statuses |-> DeclaredStatuses(event)
                                 \ AllowedStatuses(event.event_type),
                event_type |-> event.event_type])>>
    ELSE <<>>

RECURSIVE FlatMap(_, _)
FlatMap(seq, f) ==
    IF seq = <<>> THEN <<>> ELSE f[Head(seq)] \o FlatMap(Tail(seq), f)

\* C8: for the declared entries whose handler takes exactly (self, request)
\* validate_events returns and emits, per entry: one ERROR and no status
\* check if event_type is not a type of the schema; otherwise one ERROR
\* naming all offending statuses if a declared status is outside the allowed
\* set (or any status is declared while the type allows none); otherwise
\* nothing. Empty or absent statuses give no status ERROR and no failure.
C8_EventTypeAndStatuses ==
    (/\ EventsCalled
     /\ \A i \in 1..Len(CalledEvents) :
           Len(CalledMethods[CalledEvents[i].method]) = 2)
    => /\ ret.exc = ""
       /\ ret.messages =
            FlatMap(CalledEvents,
                    [e \in Range(CalledEvents) |-> ExpectedEventMessages(e)])

\* C8 without the entries that declare statuses=None for a type that
\* restricts the statuses
C8_ExceptNoneStatuses ==
    (/\ EventsCalled
     /\ \A i \in 1..Len(CalledEvents) :
           /\ Len(CalledMethods[CalledEvents[i].method]) = 2
           /\ ~(/\ CalledEvents[i].statuses.type = "NoneType"
                /\ CalledEvents[i].event_type
                       = "asset_purchase_request_processing"))
    => /\ ret.exc = ""
       /\ ret.messages =
            FlatMap(CalledEvents,
                    [e \in Range(CalledEvents) |-> ExpectedEventMessages(e)])

\* the invalid-signature ERROR the claim expects for one entry
ExpectedSignatureMessages(event) ==
    IF Len(CalledMethods[event.method]) # 2
    THEN <<ValidationItem("ERROR", "The handler has an invalid signature",
               [event_type |-> event.event_type,
                sig_str |-> <<event.method, CalledMethods[event.method]>>])>>
    ELSE <<>>

IsSignatureItem(item) == item.text = "The handler has an invalid signature"

\* C9: for each declared event entry validate_events emits exactly one
\* invalid-signature ERROR, embedding method(param1, param2, ...), if and
\* only if the handler's parameter count is not two, whatever the entry's
\* event_type and statuses.
C9_SignaturePerEntry ==
    (EventsCalled /\ ret.exc = "")
    => SelectSeq(ret.messages, IsSignatureItem) =
            FlatMap(CalledEvents,
                    [e \in Range(CalledEvents) |->
                        ExpectedSignatureMessages(e)])

----------------------------------------------------------------------------
(* Claims about validate_docker_compose_yml                                *)

ComposeCalled == call.fn = "validate_docker_compose_yml"

\* 'cloudblueconnect/connect-extension-runner:' + context.runner_version
ExpectedImage ==
    PyStr(<<"cloudblueconnect/connect-extension-runner:",
            call.context["runner_version"]>>)

\* the declared services of the parsed file with the image of each (PyNone
\* when it declares none)
DeclaredServices ==
    LET data == call.compose_file.data IN
    IF data.type = "dict" /\ "services" \in DOMAIN data.value
    THEN LET services == data.value["services"] IN
         IF services.type = "dict"
         THEN [i \in 1..Len(services.value) |->
                 [service |-> services.value[i].name,
                  image |-> IF services.value[i].body.type = "dict"
                               /\ "image" \in
                                    DOMAIN services.value[i].body.value
                            THEN services.value[i].body.value["image"]
                            ELSE PyNone]]
         ELSE IF services.type = "list"
         THEN [i \in 1..Len(services.value) |->
                 [service |-> services.value[i], image |-> PyNone]]
         ELSE <<>>
    ELSE <<>>

Mismatching(declared) == declared.image # ExpectedImage

\* C10: an absent docker-compose.yml gives exactly one WARNING, an
\* unparsable one exactly one ERROR; otherwise there is one ERROR per
\* declared service whose image is not the expected runner image (a service
\* without image counts), naming the expected and the actual image, and no
\* other message.
C10_ComposeMessages ==
    ComposeCalled =>
        /\ ret.exc = ""
        /\ call.compose_file.state = "absent" =>
              Len(ret.messages) = 1 /\ ret.messages[1].level = "WARNING"
        /\ call.compose_file.state = "invalid" =>
              Len(ret.messages) = 1 /\ ret.messages[1].level = "ERROR"
        /\ call.compose_file.state = "parsed" =>
              LET wrong == SelectSeq(DeclaredServices, Mismatching) IN
              /\ Len(ret.messages) = Len(wrong)
              /\ \A i \in 1..Len(wrong) :
                    /\ ret.messages[i].level = "ERROR"
                    /\ ret.messages[i].args.service = wrong[i].service
                    /\ ret.messages[i].args.expected = ExpectedImage
                    /\ ret.messages[i].args.got = wrong[i].image

\* C10 for the files whose services are a mapping of mappings
C10_WellFormedFiles ==
    (/\ ComposeCalled
     /\ call.compose_file.state = "parsed"
        => /\ call.compose_file.data.type = "dict"
           /\ "services" \in DOMAIN call.compose_file.data.value
           /\ call.compose_file.data.value["services"].type = "dict"
           /\ \A i \in 1..Len(call.compose_file.data.value["services"].value) :
                 call.compose_file.data.value["services"].value[i].body.type
                     = "dict")
    => C10_ComposeMessages

----------------------------------------------------------------------------
(* Claims about the validators that read the project's files               *)

\* C5: no validator lets an exception escape for a content violation of the
\* project (an entry-point reference without ':', a class the module does
\* not define, a module whose import fails, a docker-compose.yml without a
\* services mapping or with a non-mapping service): it returns a
\* ValidationResult instead.
C5_NoValidatorRaises ==
    call.fn \in {"validate_pyproject_toml", "validate_docker_compose_yml"}
        => ret.exc = ""

----------------------------------------------------------------------------
(* Claims about the chain                                                  *)

\* the list order of the chain
ListOrder ==
    <<"validate_pyproject_toml", "validate_docker_compose_yml",
      "validate_extension_class", "validate_events", "validate_variables",
      "validate_schedulables", "validate_webapp_extension",
      "validate_anvil_extension">>

\* the messages of the results of the first n invoked validators, in order
RECURSIVE MessagesOfFirst(_)
MessagesOfFirst(n) ==
    IF n = 0 THEN <<>> ELSE MessagesOfFirst(n - 1) \o invoked[n].messages

\* a validator of the run returned must_halt=true
SomeHalt == \E i \in 1..Len(invoked) : invoked[i].must_halt

\* C1: the validators are invoked in list order; once a validator returns
\* must_halt=true no validator after it is invoked, and the message list of
\* such a run is the concatenation, in order, of the messages of every
\* validator that ran up to and including the halting one.
C1_HaltStopsChainKeepsMessages ==
    /\ [i \in 1..Len(invoked) |-> invoked[i].validator]
          = SubSeq(ListOrder, 1, Len(invoked))
    /\ \A i \in 1..Len(invoked) : invoked[i].must_halt => i = Len(invoked)
    /\ SomeHalt =>
          /\ status \in {"halted", "returned"}
          /\ all_messages = MessagesOfFirst(Len(invoked))

\* a run halted by the seventh validator that returns the messages of the
\* earlier validators with those of the halting one
C1_Witness ==
    /\ status = "returned"
    /\ Len(invoked) = 7
    /\ invoked[7].must_halt
    /\ invoked[7].messages # <<>>
    /\ Len(all_messages) > Len(invoked[7].messages)

\* the references to the classes that conform to the contract
ConformingRefs ==
    [extension |-> {Ref("pkg.events", "MyExtension")},
     webapp |-> {Ref("pkg.webapp", "MyWebApp"),
                 Ref("pkg.webapp", "PlainWebApp")},
     anvil |-> {Ref("pkg.anvil", "MyAnvilApp"),
                Ref("pkg.anvil", "NoKeyAnvilApp")}]

\* a valid manifest declaring conforming extension classes
ConformingManifest ==
    /\ project_dir.toml.type = "dict"
    /\ project_dir.toml.value["dependencies"] = {"connect-eaas-core"}
    /\ "plugins" \in DOMAIN project_dir.toml.value
    /\ LET extension_dict ==
               project_dir.toml.value["plugins"]["connect.eaas.ext"]
       IN /\ extension_dict.type = "dict"
          /\ DOMAIN extension_dict.value # {}
          /\ \A t \in DOMAIN extension_dict.value :
                extension_dict.value[t] \in ConformingRefs[t]

\* C2: the success flag of a run is true if and only if no validator
\* returned must_halt=true and no accumulated message is an ERROR; a run on
\* a project with a valid manifest and conforming classes whose
\* docker-compose.yml is missing ends with exactly one message, the WARNING
\* for the missing file, and success=true.
C2_SuccessFlag ==
    status = "returned" =>
        /\ success <=>
              /\ ~SomeHalt
              /\ \A i \in 1..Len(all_messages) :
                    all_messages[i].level # "ERROR"
        /\ (ConformingManifest /\ project_dir.compose_file.state = "absent")
           => /\ Len(all_messages) = 1
              /\ all_messages[1].level = "WARNING"
              /\ all_messages[1].text
                    = "the file docker-compose.yml is not present"
              /\ success

\* such a run, all eight validators invoked
C2_Witness ==
    /\ status = "returned"
    /\ ConformingManifest
    /\ project_dir.compose_file.state = "absent"
    /\ Len(invoked) = 8
    /\ Len(all_messages) = 1
    /\ success

----------------------------------------------------------------------------
(* Claims about the capability annotations                                 *)

\* vars_dict = {v['name']: v for v in get_variables()}: the last entry of
\* get_variables() with the name
LookUp(name) ==
    LET entries == get_variables(decorated)
        last == CHOOSE i \in 1..Len(entries) :
                    /\ entries[i]["name"] = name
                    /\ \A j \in (i + 1)..Len(entries) :
                          entries[j]["name"] # name
    IN entries[last]

\* the entry named `name` that an annotation contributes
Contribution(annotation, name) ==
    LET i == CHOOSE j \in 1..Len(annotation.variables) :
                 annotation.variables[j]["name"] = name
    IN annotation.variables[i]

\* the names to which both annotations of the class contribute an entry
SharedNames ==
    {n \in {PyStr(MY_VAR), PyStr(ANVIL_API_KEY)} :
        /\ Declares(annotations[1].variables, n)
        /\ Declares(annotations[2].variables, n)}

\* one variables and one anvil_key_variable annotation, in either order
OneOfEach ==
    /\ Len(annotations) = 2
    /\ annotations[1].kind # annotations[2].kind

\* C3 as stated: when two annotations both contribute an entry with the
\* same name, get_variables() yields the entry of the outermost-applied
\* annotation.
C3_OutermostWins ==
    OneOfEach =>
        \A n \in SharedNames : LookUp(n) = Contribution(annotations[2], n)

\* C3 as amended: when variables and anvil_key_variable both contribute an
\* entry with the same name, get_variables() yields the entry of the
\* innermost-applied annotation (the one applied first), in both nesting
\* orders and for every pair of entry values.
C3_InnermostWins ==
    OneOfEach =>
        \A n \in SharedNames : LookUp(n) = Contribution(annotations[1], n)

\* variables applied outside anvil_key_variable, with another entry for the
\* key: the annotation's own entry is the one returned
C3_Witness ==
    /\ OneOfEach
    /\ annotations[1].kind = "anvil_key_variable"
    /\ PyStr(ANVIL_API_KEY) \in SharedNames
    /\ Contribution(annotations[2], PyStr(ANVIL_API_KEY))
          # Contribution(annotations[1], PyStr(ANVIL_API_KEY))
    /\ LookUp(PyStr(ANVIL_API_KEY)) = AnvilKeyEntry(ANVIL_API_KEY)

\* C4: (i) anvil_key_variable(K) outside variables(vars): every entry of
\* vars, one named K included, is returned as declared; (ii) variables(vars)
\* outside anvil_key_variable(K): every entry of vars not named K is
\* returned as declared and the entry named K is {name: K, initial_value:
\* 'changeme!', secure: true}; (iii) anvil_key_variable(K) alone:
\* get_anvil_key_variable() is K and the first entry of get_variables() is
\* that entry.
C4_TestAssertions ==
    /\ (OneOfEach /\ annotations[1].kind = "variables") =>
          \A i \in 1..Len(annotations[1].variables) :
              LookUp(annotations[1].variables[i]["name"])
                  = annotations[1].variables[i]
    /\ (OneOfEach /\ annotations[1].kind = "anvil_key_variable") =>
          LET key == annotations[1].variables[1]["name"] IN
          /\ \A i \in 1..Len(annotations[2].variables) :
                annotations[2].variables[i]["name"] # key =>
                    LookUp(annotations[2].variables[i]["name"])
                        = annotations[2].variables[i]
          /\ LookUp(key) = AnvilKeyEntry(key.value)
    /\ (Len(annotations) = 1 /\ annotations[1].kind = "anvil_key_variable")
          => LET key == annotations[1].variables[1]["name"] IN
             /\ get_anvil_key_variable(decorated) = key
             /\ get_variables(decorated) # <<>>
             /\ get_variables(decorated)[1] = AnvilKeyEntry(key.value)

\* the third case of test_get_anvil_key_variable_with_variables_after
C4_Witness ==
    /\ OneOfEach
    /\ annotations[1].kind = "variables"
    /\ annotations[2].variables = <<AnvilKeyEntry(ANVIL_API_KEY)>>
    /\ Len(annotations[1].variables) = 2
    /\ LookUp(PyStr(ANVIL_API_KEY))
          = [name |-> PyStr(ANVIL_API_KEY),
             initial_value |-> PyStr(<<"test!">>),
             secure |-> PyBool(<<"False">>)]

----------------------------------------------------------------------------
(* Claims about validate_pyproject_toml                                    *)

\* validate_pyproject_toml was called on a manifest that loads
PyprojectCalled ==
    call.fn = "validate_pyproject_toml" /\ call.toml.type = "dict"

\* the entry-point table of the manifest of the call, None when it has none
CalledTable ==
    IF "plugins" \in DOMAIN call.toml.value
       /\ "connect.eaas.ext" \in DOMAIN call.toml.value["plugins"]
    THEN call.toml.value["plugins"]["connect.eaas.ext"]
    ELSE PyNone

\* the types among extension, webapp, anvil that the table declares
DeclaredTypes ==
    IF CalledTable.type = "dict"
    THEN DOMAIN CalledTable.value \cap {"extension", "webapp", "anvil"}
    ELSE {}

\* the module of a reference package:ClassName does not import
ImportFails(ref) ==
    /\ Len(ref) >= 2
    /\ LET package == SubSeq(ref, 1, Len(ref) - 1)
       IN \/ package \notin DOMAIN SampleModules
          \/ SampleModules[package].import # "ok"

\* the cases in which the claim has the validator halt
ExpectedPyprojectHalt ==
    \/ CalledTable.type # "dict"
    \/ \E t \in DeclaredTypes : ImportFails(CalledTable.value[t])
    \/ DeclaredTypes = {}

\* what the claim says of a result of validate_pyproject_toml
PyprojectResultAsClaimed ==
    LET dependencies == call.toml.value["dependencies"]
        warned == ItemsWithText(ret.messages,
                      "Extensions must depend on connect-eaas-core")
        missing == ItemsWithText(ret.messages,
                      "No dependency on connect-eaas-core has been found")
    IN /\ Cardinality(warned) =
              (IF "connect-extension-runner" \in dependencies THEN 1 ELSE 0)
       /\ Cardinality(missing) =
              (IF dependencies = {} THEN 1 ELSE 0)
       /\ \A i \in warned : ret.messages[i].level = "WARNING" /\ i = 1
       /\ \A i \in missing : ret.messages[i].level = "ERROR" /\ i = 1
       /\ ret.must_halt <=> ExpectedPyprojectHalt
       /\ ret.must_halt =>
             /\ ret.messages # <<>>
             /\ ret.messages[Len(ret.messages)].level = "ERROR"
             /\ ret.messages[Len(ret.messages)].text \in
                   {"No extension declaration has been found",
                    "The extension class cannot be loaded",
                    "Invalid extension declaration"}
             /\ ret.context = EmptyDict
       /\ ~ret.must_halt =>
             /\ DOMAIN ret.context = {"extension_classes"}
             /\ DOMAIN ret.context["extension_classes"] = DeclaredTypes

\* C11: on a loadable manifest validate_pyproject_toml returns a result in
\* which the dependency check has added one WARNING if
\* connect-extension-runner is a dependency and one ERROR if neither it nor
\* connect-eaas-core is; must_halt is true exactly when the entry-point
\* table is missing or not a mapping, a referenced module fails to import,
\* or no class is resolved for any of extension, webapp, anvil; a halting
\* result keeps the earlier messages, ends with the halting ERROR and
\* carries no patch; a non-halting result patches extension_classes with
\* exactly the declared types.
C11_PyprojectResult ==
    PyprojectCalled => (ret.exc = "" /\ PyprojectResultAsClaimed)

\* the same of the calls that return: it fails only where the validator
\* raises
C11_WhenReturned ==
    (PyprojectCalled /\ ret.exc = "") => PyprojectResultAsClaimed

\* a module that fails to import after a dependency WARNING: both messages
\* are in the halting result
C11_HaltKeepsWarning ==
    /\ PyprojectCalled
    /\ ret.exc = ""
    /\ ret.must_halt
    /\ Len(ret.messages) = 2
    /\ ret.messages[1].level = "WARNING"
    /\ ret.messages[2].text = "The extension class cannot be loaded"

----------------------------------------------------------------------------
(* Claims about validate_extension_class                                   *)

ExtensionClassCalled == call.fn = "validate_extension_class"

CalledClasses == call.context["extension_classes"]

\* the base expected for each declared type
ExpectedBases ==
    [extension |-> {"Extension", "EventsExtension"},
     webapp |-> {"WebAppExtension"},
     anvil |-> {"AnvilExtension"}]

\* the declared types whose class is no subclass of the expected base
ViolatingTypes ==
    {t \in CalledTypes : CalledClasses[t].bases \cap ExpectedBases[t] = {}}

\* the declared types whose class has no descriptor file next to it
TypesWithoutDescriptor ==
    {t \in CalledTypes : CalledClasses[t].descriptor.type = "NoneType"}

DescriptorKeys == {"variables", "capabilities", "schedulables"}

\* the position of a type in possible_extensions
ListPosition(t) ==
    CHOOSE i \in 1..Len(possible_extensions) : possible_extensions[i] = t

\* C12: validate_extension_class checks every loaded class against the base
\* expected for its declared type. If a loaded class violates it the result
\* is a single ERROR with must_halt=true and no descriptor patch; if none
\* does and the descriptor loads, the result has must_halt=false, patches
\* context.descriptor, and holds exactly one WARNING for each of the keys
\* variables, capabilities, schedulables present in the descriptor and no
\* other message.
C12_ShapeAndDescriptorWarnings ==
    ExtensionClassCalled =>
        /\ ret.exc = ""
        /\ ViolatingTypes # {} =>
              /\ ret.must_halt
              /\ Len(ret.messages) = 1
              /\ ret.messages[1].level = "ERROR"
              /\ ret.messages[1].text = "is not a subclass of"
              /\ "descriptor" \notin DOMAIN ret.context
        /\ (ViolatingTypes = {} /\ TypesWithoutDescriptor = {}) =>
              /\ ~ret.must_halt
              /\ DOMAIN ret.context = {"descriptor"}
              /\ \A i \in 1..Len(ret.messages) :
                    /\ ret.messages[i].level = "WARNING"
                    /\ ret.messages[i].text
                          = "must be declared using the decorator"
              /\ \A k \in DescriptorKeys :
                    Cardinality({i \in 1..Len(ret.messages) :
                        ret.messages[i].args.description = k})
                    = (IF k \in DOMAIN ret.context["descriptor"]
                       THEN 1 ELSE 0)

\* two conforming classes, the descriptor carrying the three keys: three
\* WARNINGs and the descriptor patched
C12_Witness ==
    /\ ExtensionClassCalled
    /\ CalledTypes = {"extension", "anvil"}
    /\ ViolatingTypes = {}
    /\ ~ret.must_halt
    /\ Len(ret.messages) = 3
    /\ DescriptorKeys \subseteq DOMAIN ret.context["descriptor"]

\* a class of another base declared after a conforming one: the single
\* ERROR of the halting result
C12_ViolationAfterConforming ==
    /\ ExtensionClassCalled
    /\ ViolatingTypes = {"webapp"}
    /\ "extension" \in CalledTypes
    /\ ret.must_halt
    /\ Len(ret.messages) = 1

\* C13: validate_extension_class loads the descriptor of every loaded class
\* (each declared type, not only the first one): if the descriptor file of
\* any loaded class is absent the result is an ERROR with must_halt=true,
\* and the descriptor patched into the context is the one of the class that
\* later validators inspect with it, the webapp class for the ui check.
C13_EveryClassDescriptor ==
    (ExtensionClassCalled /\ ret.exc = "" /\ ViolatingTypes = {}) =>
        /\ TypesWithoutDescriptor # {} =>
              /\ ret.must_halt
              /\ ret.messages # <<>>
              /\ ret.messages[Len(ret.messages)].level = "ERROR"
        /\ (~ret.must_halt /\ "webapp" \in CalledTypes) =>
              ret.context["descriptor"]
                  = CalledClasses["webapp"].descriptor.value

\* C13 restricted to the class that the loop meets first
C13_FirstClassDescriptor ==
    (ExtensionClassCalled /\ ret.exc = "" /\ ViolatingTypes = {}) =>
        LET first == CHOOSE t \in CalledTypes :
                        \A u \in CalledTypes : ListPosition(t) <= ListPosition(u)
        IN /\ first \in TypesWithoutDescriptor <=> ret.must_halt
           /\ ~ret.must_halt =>
                 ret.context["descriptor"]
                     = CalledClasses[first].descriptor.value

----------------------------------------------------------------------------
(* Claims about validate_webapp_extension                                  *)

\* every node of a ui tree, the children of a node after it
RECURSIVE UiNodes(_)
UiNodes(items) ==
    IF items = <<>> THEN <<>>
    ELSE <<Head(items)>>
         \o (IF "children" \in DOMAIN Head(items)
             THEN UiNodes(Head(items)["children"]) ELSE <<>>)
         \o UiNodes(Tail(items))

\* validate_webapp_extension was called with a wrapped webapp class that
\* has a router function and a descriptor that declares ui
UiWalkCalled ==
    /\ call.fn = "validate_webapp_extension"
    /\ "webapp" \in CalledTypes
    /\ CalledClasses["webapp"].source = "@web_app(router)"
    /\ \E f \in DOMAIN CalledClasses["webapp"].functions :
          CalledClasses["webapp"].functions[f] = "@router."
    /\ "ui" \in DOMAIN call.context["descriptor"]

CalledUiNodes == UiNodes(call.context["descriptor"]["ui"])

\* the nodes whose url names, by its final segment, no file of static_root
NodesWithoutFile ==
    {i \in 1..Len(CalledUiNodes) :
        /\ "url" \in DOMAIN CalledUiNodes[i]
        /\ LET url == CalledUiNodes[i]["url"]
           IN url[Len(url)] \notin CalledClasses["webapp"].static_root}

EveryNodeHasUrl ==
    \A i \in 1..Len(CalledUiNodes) : "url" \in DOMAIN CalledUiNodes[i]

\* what the claim says of the result of the walk
UiResultAsClaimed ==
    /\ ret.exc = ""
    /\ (EveryNodeHasUrl /\ NodesWithoutFile = {}) =>
          ~ret.must_halt /\ ret.messages = <<>>
    /\ (EveryNodeHasUrl /\ NodesWithoutFile # {}) =>
          /\ ret.must_halt
          /\ Len(ret.messages) = 1
          /\ ret.messages[1].level = "ERROR"
          /\ ret.messages[1].text = "contains missing static files"
          /\ \A u \in SampleUrls :
                Cardinality({i \in 1..Len(ret.messages[1].args.missed_files) :
                                ret.messages[1].args.missed_files[i] = u})
                = Cardinality({i \in NodesWithoutFile :
                                CalledUiNodes[i]["url"] = u})
    /\ ~EveryNodeHasUrl =>
          /\ ret.must_halt
          /\ Len(ret.messages) = 1
          /\ ret.messages[1].level = "ERROR"

\* C14: with a correctly wrapped webapp class and a descriptor declaring ui,
\* the walk visits every node of the ui tree exactly once: if every node has
\* a url, the result is exactly one ERROR with must_halt=true listing every
\* url whose final path segment has no file under static_root when at least
\* one is missing, and no message with must_halt=false when none is; if
\* some node lacks a url the result is an ERROR with must_halt=true.
C14_UiWalk ==
    UiWalkCalled => UiResultAsClaimed

\* the same of the trees none of whose urls ends in '/'
C14_UrlsNamingAFile ==
    (/\ UiWalkCalled
     /\ \A i \in 1..Len(CalledUiNodes) :
           "url" \in DOMAIN CalledUiNodes[i] =>
               CalledUiNodes[i]["url"][Len(CalledUiNodes[i]["url"])] # "")
        => UiResultAsClaimed

----------------------------------------------------------------------------
(* Claims about the validators that do not halt                            *)

NonHaltingValidators ==
    {"validate_docker_compose_yml", "validate_events", "validate_variables",
     "validate_schedulables", "validate_anvil_extension"}

\* C15: for every input, validate_docker_compose_yml, validate_events,
\* validate_variables, validate_schedulables and validate_anvil_extension
\* return a result with must_halt=false, however many ERRORs they emit, so
\* that the validators after them still run.
C15_NeverHalt ==
    call.fn \in NonHaltingValidators => (ret.exc = "" /\ ~ret.must_halt)

\* the same of the calls that return
C15_NeverHaltWhenReturned ==
    (call.fn \in NonHaltingValidators /\ ret.exc = "") => ~ret.must_halt

\* a result with three ERRORs that does not halt
C15_ManyErrors ==
    /\ call.fn = "validate_variables"
    /\ ret.exc = ""
    /\ ~ret.must_halt
    /\ Cardinality({i \in 1..Len(ret.messages) :
                       ret.messages[i].level = "ERROR"}) >= 3

----------------------------------------------------------------------------
(* Claims about the state that the validators leave behind                 *)

\* the result with which the validator named `validator` answered in this
\* run, if it was invoked and returned
Returned(validator) ==
    \E i \in 1..Len(invoked) :
        invoked[i].validator = validator /\ invoked[i].exc = ""
                                         /\ ~invoked[i].must_halt

\* every key of the shared context holds the value with which it was first
\* set: runner_version as supplied, extension_classes as patched by
\* validate_pyproject_toml, descriptor as patched by
\* validate_extension_class
ContextKeysKept ==
    /\ status # "idle" =>
          /\ "runner_version" \in DOMAIN shared_context
          /\ shared_context["runner_version"] = SuppliedRunnerVersion
    /\ Returned("validate_pyproject_toml") =>
          /\ "extension_classes" \in DOMAIN shared_context
          /\ shared_context["extension_classes"]
                = validate_pyproject_toml(ProjectDir(project_dir))
                      .context["extension_classes"]
    /\ Returned("validate_extension_class") =>
          /\ "descriptor" \in DOMAIN shared_context
          /\ \E t \in DOMAIN shared_context["extension_classes"] :
                shared_context["descriptor"]
                    = shared_context["extension_classes"][t].descriptor.value

\* C16: every validator leaves all state outside its returned result
\* unchanged: no key of the shared context is deleted or overwritten, and
\* no process-wide state, such as the module search path, differs after a
\* call from before it, so that a second run on the same project starts
\* from the state the first one started from.
C16_NoStateOutsideResult ==
    /\ ContextKeysKept
    /\ sys_path = <<>>

\* the part of C16 about the shared context
C16_ContextKeysKept == ContextKeysKept

----------------------------------------------------------------------------
(* Claims about the keys of the shared context                             *)

\* the context keys that each validator reads
ContextReads ==
    [validate_pyproject_toml |-> {},
     validate_docker_compose_yml |-> {"runner_version"},
     validate_extension_class |-> {"extension_classes"},
     validate_events |-> {"extension_classes"},
     validate_variables |-> {"extension_classes"},
     validate_schedulables |-> {"extension_classes"},
     validate_webapp_extension |-> {"extension_classes", "descriptor"},
     validate_anvil_extension |-> {"extension_classes"}]

\* C17: in every run of the chain that starts from a context holding only
\* runner_version, the validator about to be invoked finds every context
\* key it reads already present (extension_classes non-empty): a validator
\* that fails to produce a key halts the chain before a reader of the key
\* runs.
C17_ReadersFindTheirKeys ==
    (status = "running" /\ step <= Len(extension_validators)) =>
        /\ ContextReads[extension_validators[step]] \subseteq
              DOMAIN shared_context
        /\ "extension_classes" \in ContextReads[extension_validators[step]]
              => DOMAIN shared_context["extension_classes"] # {}

\* the web-app validator about to run on a webapp class, the descriptor
\* patched by validate_extension_class
C17_Witness ==
    /\ status = "running"
    /\ extension_validators[step] = "validate_webapp_extension"
    /\ "webapp" \in DOMAIN shared_context["extension_classes"]
    /\ "descriptor" \in DOMAIN shared_context
    /\ Len(invoked) = 6

----------------------------------------------------------------------------
(* Claims about the halting results                                        *)

\* a validator that can halt was called and returned; for
\* validate_pyproject_toml, after the manifest was loaded
HaltingValidatorReturned ==
    /\ \/ PyprojectCalled
       \/ call.fn \in {"validate_extension_class",
                       "validate_webapp_extension"}
    /\ ret.exc = ""

\* C18: every result with must_halt=true of validate_pyproject_toml (after
\* the manifest was loaded), validate_extension_class or
\* validate_webapp_extension has an ERROR as its last message and carries
\* no context patch; validate_webapp_extension returns at most one message,
\* with must_halt=true exactly when that message exists.
C18_HaltingResults ==
    HaltingValidatorReturned =>
        /\ ret.must_halt =>
              /\ ret.messages # <<>>
              /\ ret.messages[Len(ret.messages)].level = "ERROR"
              /\ ret.context = EmptyDict
        /\ call.fn = "validate_webapp_extension" =>
              /\ Len(ret.messages) <= 1
              /\ ret.must_halt <=> (Len(ret.messages) = 1)

\* the web-app validator halting with its single ERROR
C18_Witness ==
    /\ call.fn = "validate_webapp_extension"
    /\ ret.exc = ""
    /\ ret.must_halt
    /\ Len(ret.messages) = 1
    /\ ret.messages[1].text = "contains missing static files"
    /\ Len(ret.messages[1].args.missed_files) >= 2

\* the consequence for a run of the chain: a halted run holds an ERROR
C18_HaltedRunHasError ==
    SomeHalt => \E i \in 1..Len(all_messages) : all_messages[i].level = "ERROR"

====
